---- MODULE Spec2Model ----
(***************************************************************************)
(* Model of project_01 (config_watcher): ConfigWatcher polls one JSON      *)
(* configuration file, keeps the last modification timestamp and the last  *)
(* valid AppConfig, and reports every load, reload and failure.            *)
(*                                                                         *)
(* Conventions.  Option<T> is a sequence of length 0 (None) or 1 (Some).   *)
(* A String whose characters matter (trim, contains) is a sequence of      *)
(* one-character strings.  The watcher advances one filesystem call at a   *)
(* time, so that the external writer of the file can act between the       *)
(* calls, as another process does.                                         *)
(***************************************************************************)
EXTENDS Integers, Sequences, FiniteSets, TLC

\* ------------------------------------------------------------------------
\* Bounds
\* ------------------------------------------------------------------------

\* Modification timestamps range over 0..MaxTime.
MaxTime == 3

\* The external writer acts at most MaxEnvSteps times in a run.
MaxEnvSteps == 4

Times == 0..MaxTime

\* ------------------------------------------------------------------------
\* Option helpers
\* ------------------------------------------------------------------------

None == <<>>

Some(x) == <<x>>

IsSome(o) == Len(o) = 1

\* ------------------------------------------------------------------------
\* Strings
\* ------------------------------------------------------------------------

Whitespace == {" ", "\t", "\n", "\r"}

\* str::trim().is_empty(): only whitespace characters, or no character.
TrimIsEmpty(s) == \A i \in 1..Len(s) : s[i] \in Whitespace

\* str::contains('.')
ContainsDot(s) == \E i \in 1..Len(s) : s[i] = "."

\* ------------------------------------------------------------------------
\* config.rs: the schema, its serde defaults, and validation
\* ------------------------------------------------------------------------

default_environment == "development"

default_true == TRUE

default_pool_size == 10

default_timeout == 30

U16Max == 65535

valid_envs == {"development", "staging", "production"}

\* serde Deserialize for ServerConfig: host and port are required fields of
\* the raw block, port must fit u16, enable_ssl defaults to true.
ParseServer(raw) ==
    IF raw.port < 0 \/ raw.port > U16Max
    THEN None
    ELSE Some([host       |-> raw.host,
               port       |-> raw.port,
               enable_ssl |-> IF IsSome(raw.enable_ssl)
                              THEN raw.enable_ssl[1] ELSE default_true])

\* serde Deserialize for DatabaseConfig: pool_size (u32) defaults to 10 and
\* timeout_seconds (u64) to 30; a negative number does not deserialize.  The
\* documents of this model stay far below the upper ends of u32 and u64.
ParseDatabase(raw) ==
    LET ps == IF IsSome(raw.pool_size) THEN raw.pool_size[1] ELSE default_pool_size
        ts == IF IsSome(raw.timeout_seconds) THEN raw.timeout_seconds[1] ELSE default_timeout
    IN  IF ps < 0 \/ ts < 0
        THEN None
        ELSE Some([connection_string |-> raw.connection_string,
                   pool_size         |-> ps,
                   timeout_seconds   |-> ts])

\* serde_json::from_str::<AppConfig>: None when the text is not JSON, when a
\* required field is missing or when a nested block does not deserialize;
\* otherwise the typed value with the defaults filled in.
ParseJson(doc) ==
    IF ~doc.wellformed \/ ~IsSome(doc.app_name) \/ ~IsSome(doc.version)
    THEN None
    ELSE LET srv == IF IsSome(doc.server) THEN ParseServer(doc.server[1]) ELSE None
             db  == IF IsSome(doc.database) THEN ParseDatabase(doc.database[1]) ELSE None
         IN  IF (IsSome(doc.server) /\ ~IsSome(srv)) \/ (IsSome(doc.database) /\ ~IsSome(db))
             THEN None
             ELSE Some([app_name    |-> doc.app_name[1],
                        version     |-> doc.version[1],
                        environment |-> IF IsSome(doc.environment)
                                        THEN doc.environment[1] ELSE default_environment,
                        server      |-> srv,
                        database    |-> db,
                        features    |-> IF IsSome(doc.features)
                                        THEN doc.features[1] ELSE {}])

ValidateNoPortCheck(c) ==
    IF TrimIsEmpty(c.app_name) THEN "app_name cannot be empty"
    ELSE IF ~ContainsDot(c.version) THEN "version should follow semver format"
    ELSE IF c.environment \notin valid_envs THEN "environment must be one of"
    ELSE IF IsSome(c.server) /\ TrimIsEmpty(c.server[1].host) THEN "server.host cannot be empty"
    ELSE IF IsSome(c.database) /\ TrimIsEmpty(c.database[1].connection_string)
         THEN "database.connection_string cannot be empty"
    ELSE IF IsSome(c.database) /\ c.database[1].pool_size = 0
         THEN "database.pool_size must be greater than 0"
    ELSE ""

\* AppConfig::validate: "" when Ok(()), else the reason of ValidationFailed.
Validate(c) ==
    IF TrimIsEmpty(c.app_name) THEN "app_name cannot be empty"
    ELSE IF ~ContainsDot(c.version) THEN "version should follow semver format"
    ELSE IF c.environment \notin valid_envs THEN "environment must be one of"
    ELSE IF IsSome(c.server) /\ TrimIsEmpty(c.server[1].host) THEN "server.host cannot be empty"
    ELSE IF IsSome(c.server) /\ c.server[1].port = 0 THEN "server.port must be greater than 0"
    ELSE IF IsSome(c.database) /\ TrimIsEmpty(c.database[1].connection_string)
         THEN "database.connection_string cannot be empty"
    ELSE IF IsSome(c.database) /\ c.database[1].pool_size = 0
         THEN "database.pool_size must be greater than 0"
    ELSE ""

\* ------------------------------------------------------------------------
\* The documents the external writer puts in the file
\* ------------------------------------------------------------------------

RawDoc(wf, name, ver, env) ==
    [wellformed  |-> wf,
     app_name    |-> name,
     version     |-> ver,
     environment |-> env,
     server      |-> None,
     database    |-> None,
     features    |-> None]

TestApp == <<"T", "A">>

\* "{ invalid json }", an empty file, a half-written file
DocGarbage == RawDoc(FALSE, None, None, None)

\* {"app_name":"TestApp","version":"1.0.0","environment":"development"}
DocV1 == RawDoc(TRUE, Some(TestApp), Some(<<"1", ".", "0">>), Some("development"))

\* {"app_name":"TestApp","version":"1.0.0"}
DocV1NoEnv == RawDoc(TRUE, Some(TestApp), Some(<<"1", ".", "0">>), None)

\* {"app_name":"TestApp","version":"2.0.0","environment":"production"}
DocV2 == RawDoc(TRUE, Some(TestApp), Some(<<"2", ".", "0">>), Some("production"))

\* {"app_name":"TestApp","version":"1"}: parses, fails validation
DocBadVersion == RawDoc(TRUE, Some(TestApp), Some(<<"1">>), None)

Docs == {DocGarbage, DocV1, DocV1NoEnv, DocV2, DocBadVersion}

\* The documents that parse and validate.
IsValidDoc(doc) == IsSome(ParseJson(doc)) /\ Validate(ParseJson(doc)[1]) = ""

ValidDocs == {d \in Docs : IsValidDoc(d)}

\* ------------------------------------------------------------------------
\* State
\* ------------------------------------------------------------------------

VARIABLES
    interval,           \* Cli.interval, the --interval argument in seconds
    check_interval,     \* ConfigWatcher.check_interval in seconds; None before new()
    fileStatus,         \* the watched path: "missing", "nometa" (metadata query
                        \* fails), "noread" (metadata ok, read fails) or "ok"
    fileContent,        \* the document in the file
    fileMtime,          \* the file's modification timestamp
    phase,              \* watch(): "init" (initial load) or "loop"
    pc,                 \* main before watch(): "args" (about to validate the
                        \* arguments), "rejected" (main returned their error);
                        \* next call of watch(): "exists", "read", "stamp",
                        \* "wait" (ticker.tick().await); a test of config.rs:
                        \* "validate", "validated"; watch() over: "failed"
                        \* (returned Err), "returned" (returned Ok), "cancelled"
                        \* (dropped by select! when Ctrl+C won)
    last_modified,      \* ConfigWatcher.last_modified: Option<SystemTime>
    last_valid_config,  \* ConfigWatcher.last_valid_config: Option<AppConfig>
    config,             \* the local `config` of the Ok arm, between read and stamp
    obs,                \* what the current attempt has printed so far
    envSteps,           \* history: number of steps of the external writer
    nUpdated,           \* history: number of "Configuration has been updated" lines
    tickOdd,            \* history: parity of the number of ticks of the interval
    quiet,              \* history: the writer has not acted since the attempt began
    chgPrev,            \* history: the timestamp changed during the previous attempt
    chgCur              \* history: the timestamp changed during the current attempt

fileVars == <<fileStatus, fileContent, fileMtime>>

watcherVars == <<check_interval, phase, pc, last_modified, last_valid_config, config, obs,
                 nUpdated, tickOdd>>

vars == <<interval, check_interval, fileStatus, fileContent, fileMtime, phase, pc, last_modified,
          last_valid_config, config, obs, envSteps, nUpdated, tickOdd, quiet,
          chgPrev, chgCur>>

FileStatuses == {"missing", "nometa", "noread", "ok"}

\* cli.rs: default_value = "2" of --interval, and the upper limit of validate
DefaultInterval == 2

MaxIntervalSecs == 3600

\* ------------------------------------------------------------------------
\* Observations (the lines watch() prints)
\* ------------------------------------------------------------------------

Obs(kind) == [kind |-> kind, error |-> "", summary |-> None]

ErrObs(kind, e) == [kind |-> kind, error |-> e, summary |-> None]

\* print_config_summary: the projection of the configuration it prints.
print_config_summary(c) ==
    <<[kind    |-> "summary",
       error   |-> "",
       summary |-> Some([app_name    |-> c.app_name,
                         version     |-> c.version,
                         environment |-> c.environment,
                         server      |-> c.server,
                         database    |-> IF IsSome(c.database)
                                         THEN Some([pool_size       |-> c.database[1].pool_size,
                                                    timeout_seconds |-> c.database[1].timeout_seconds])
                                         ELSE None,
                         features    |-> Cardinality({f \in c.features : f[2]})])]>>

Kinds(o) == {o[i].kind : i \in 1..Len(o)}

\* ------------------------------------------------------------------------
\* Filesystem calls
\* ------------------------------------------------------------------------

\* fs::metadata(path) succeeds; Path::exists() is metadata().is_ok().
MetadataOk == fileStatus \in {"noread", "ok"}

\* get_modified_time: Some(timestamp), or None for MetadataError.
get_modified_time == IF MetadataOk THEN Some(fileMtime) ELSE None

HasChangedGe(current_modified, last) ==
    IF IsSome(last) THEN current_modified >= last[1] ELSE TRUE

HasChangedNoFirst(current_modified, last) ==
    IF IsSome(last) THEN current_modified > last[1] ELSE FALSE

\* has_changed, once the timestamp query has succeeded.
HasChanged(current_modified, last) ==
    IF IsSome(last) THEN current_modified > last[1] ELSE TRUE

Loaded(c) == [err |-> "", cfg |-> Some(c)]

Failed(e) == [err |-> e, cfg |-> None]

ParseThenValidateSkipValidate(doc) ==
    IF ~IsSome(ParseJson(doc)) THEN Failed("InvalidJson")
    ELSE Loaded(ParseJson(doc)[1])

\* read_config after the read: parse, then validate.
ParseThenValidate(doc) ==
    IF ~IsSome(ParseJson(doc)) THEN Failed("InvalidJson")
    ELSE IF Validate(ParseJson(doc)[1]) # "" THEN Failed("ValidationFailed")
    ELSE Loaded(ParseJson(doc)[1])

\* read_config from fs::read_to_string on.
ReadToStringThenParse ==
    IF fileStatus # "ok" THEN Failed("ReadError") ELSE ParseThenValidate(fileContent)

ReloadReportSwapped(last, c) ==
    <<Obs("reloaded")>> \o
    (IF IsSome(last)
     THEN IF last[1] = c
          THEN <<Obs("updated")>> \o print_config_summary(c)
          ELSE <<Obs("content_unchanged")>>
     ELSE print_config_summary(c))

\* What the Ok arm of a reload prints before it stores the configuration.
ReloadReport(last, c) ==
    <<Obs("reloaded")>> \o
    (IF IsSome(last)
     THEN IF last[1] # c
          THEN <<Obs("updated")>> \o print_config_summary(c)
          ELSE <<Obs("content_unchanged")>>
     ELSE print_config_summary(c))

\* ------------------------------------------------------------------------
\* Init: ConfigWatcher::new, watch() about to start its initial load, the
\* file in any state the writer may have left it in.
\* ------------------------------------------------------------------------

FileInit ==
    /\ fileStatus \in FileStatuses
    /\ IF fileStatus = "missing"
       THEN fileContent = DocGarbage /\ fileMtime = 0
       ELSE fileContent \in Docs /\ fileMtime \in Times

WatcherInit ==
    /\ interval = DefaultInterval
    /\ check_interval = Some(interval)
    /\ phase = "init"
    /\ pc = "exists"
    /\ last_modified = None
    /\ last_valid_config = None
    /\ config = None
    /\ obs = <<>>
    /\ envSteps = 0
    /\ nUpdated = 0
    /\ tickOdd = FALSE
    /\ quiet = TRUE
    /\ chgPrev = FALSE
    /\ chgCur = FALSE

Init == FileInit /\ WatcherInit

\* ------------------------------------------------------------------------
\* The watcher
\* ------------------------------------------------------------------------

ReloadErrArmClears(e) ==
    /\ obs' = obs \o <<ErrObs("reload_failed", e)>>
    /\ last_valid_config' = None
    /\ UNCHANGED <<last_modified, config, nUpdated>>
    /\ pc' = "wait"
    /\ phase' = "loop"

ReloadErrArmStamps(e) ==
    /\ obs' = obs \o <<ErrObs("reload_failed", e)>>
    /\ last_modified' = Some(fileMtime)
    /\ UNCHANGED <<last_valid_config, config, nUpdated>>
    /\ pc' = "wait"
    /\ phase' = "loop"

\* The Err arm of the reload: report, keep the last valid configuration.
ReloadErrArm(e) ==
    /\ obs' = obs \o <<ErrObs("reload_failed", e)>>
    /\ UNCHANGED <<last_modified, last_valid_config, config, nUpdated>>
    /\ pc' = "wait"
    /\ phase' = "loop"

\* The Err arm of the initial load: report, go on to the loop.
InitialErrArm(e) ==
    /\ obs' = obs \o <<ErrObs("initial_failed", e)>>
    /\ UNCHANGED <<last_modified, last_valid_config, config, nUpdated>>
    /\ pc' = "wait"
    /\ phase' = "loop"

ReadConfigErr(e) == IF phase = "init" THEN InitialErrArm(e) ELSE ReloadErrArm(e)

\* read_config, the existence check.
Exists ==
    /\ pc = "exists"
    /\ IF MetadataOk
       THEN /\ pc' = "read"
            /\ UNCHANGED <<phase, last_modified, last_valid_config, config, obs, nUpdated>>
       ELSE ReadConfigErr("FileNotFound")
    /\ UNCHANGED <<interval, check_interval, fileVars, envSteps, tickOdd, quiet, chgPrev, chgCur>>

\* read_config from the read on, and the prints of the Ok arm.
Read ==
    /\ pc = "read"
    /\ LET r == ReadToStringThenParse
       IN  IF r.err # ""
           THEN ReadConfigErr(r.err)
           ELSE /\ config' = r.cfg
                /\ pc' = "stamp"
                /\ IF phase = "init"
                   THEN /\ obs' = obs \o <<Obs("loaded")>> \o print_config_summary(r.cfg[1])
                        /\ nUpdated' = nUpdated
                   ELSE /\ obs' = obs \o ReloadReport(last_valid_config, r.cfg[1])
                        /\ nUpdated' = IF "updated" \in Kinds(ReloadReport(last_valid_config, r.cfg[1]))
                                       THEN nUpdated + 1 ELSE nUpdated
                /\ UNCHANGED <<phase, last_modified, last_valid_config>>
    /\ UNCHANGED <<interval, check_interval, fileVars, envSteps, tickOdd, quiet, chgPrev, chgCur>>

StoreLoadedConfigOnly(t) ==
    /\ last_modified' = last_modified
    /\ last_valid_config' = config

StoreLoadedDropsConfig(t) ==
    /\ last_modified' = Some(t)
    /\ last_valid_config' = None

StoreLoadedStale(t) ==
    /\ last_modified' = Some(t)
    /\ last_valid_config' = last_valid_config

\* self.last_modified = Some(t); self.last_valid_config = Some(config);
StoreLoaded(t) ==
    /\ last_modified' = Some(t)
    /\ last_valid_config' = config

\* self.get_modified_time().await? followed by the two assignments; the `?`
\* returns the MetadataError from watch().
Stamp ==
    /\ pc = "stamp"
    /\ IF IsSome(get_modified_time)
       THEN /\ StoreLoaded(get_modified_time[1])
            /\ pc' = "wait"
       ELSE /\ UNCHANGED <<last_modified, last_valid_config>>
            /\ pc' = "failed"
    /\ config' = None
    /\ phase' = IF IsSome(get_modified_time) THEN "loop" ELSE phase
    /\ UNCHANGED <<interval, check_interval, fileVars, obs, envSteps, nUpdated, tickOdd, quiet,
                   chgPrev, chgCur>>

TickReadyMidAttempt == pc \in {"wait", "read", "stamp"}

\* ticker.tick().await is reached at the top of the loop only.
TickReady == pc = "wait"

CheckErrArmReloads ==
    /\ obs' = <<ErrObs("check_error", "MetadataError")>>
    /\ pc' = "exists"

\* Err(e) of has_changed: report, next tick.
CheckErrArm ==
    /\ obs' = <<ErrObs("check_error", "MetadataError")>>
    /\ pc' = "wait"

UnchangedArmReturns ==
    /\ obs' = <<>>
    /\ pc' = "returned"

\* Ok(false): nothing, next tick.
UnchangedArm ==
    /\ obs' = <<>>
    /\ pc' = "wait"

\* ticker.tick().await, then has_changed and the three arms of its match.
Tick ==
    /\ TickReady
    /\ IF ~IsSome(get_modified_time)
       THEN CheckErrArm
       ELSE IF HasChanged(get_modified_time[1], last_modified)
            THEN /\ obs' = <<Obs("change_detected")>>
                 /\ pc' = "exists"
            ELSE UnchangedArm
    /\ tickOdd' = ~tickOdd
    /\ quiet' = TRUE
    /\ chgPrev' = chgCur
    /\ chgCur' = FALSE
    /\ UNCHANGED <<interval, check_interval, fileVars, phase, last_modified, last_valid_config,
                   config, envSteps, nUpdated>>

Watcher == Exists \/ Read \/ Stamp \/ Tick

\* ------------------------------------------------------------------------
\* The external writer of the file
\* ------------------------------------------------------------------------

EnvHistory(mtimeChanged) ==
    /\ envSteps' = envSteps + 1
    /\ quiet' = FALSE
    /\ chgCur' = (chgCur \/ mtimeChanged)
    /\ chgPrev' = chgPrev

\* fs::write(path, doc), the file getting timestamp t: any timestamp, later,
\* equal or earlier than the one before.
WriteFile(doc, t) ==
    /\ envSteps < MaxEnvSteps
    /\ fileStatus' = IF fileStatus = "missing" THEN "ok" ELSE fileStatus
    /\ fileContent' = doc
    /\ fileMtime' = t
    /\ EnvHistory(fileStatus = "missing" \/ t # fileMtime)
    /\ UNCHANGED <<interval, watcherVars>>

\* The file disappears.
RemoveFile ==
    /\ envSteps < MaxEnvSteps
    /\ fileStatus # "missing"
    /\ fileStatus' = "missing"
    /\ fileContent' = DocGarbage
    /\ fileMtime' = 0
    /\ EnvHistory(TRUE)
    /\ UNCHANGED <<interval, watcherVars>>

\* Permissions change: content and timestamp stay.
SetAccess(s) ==
    /\ envSteps < MaxEnvSteps
    /\ fileStatus # "missing"
    /\ s # fileStatus
    /\ fileStatus' = s
    /\ UNCHANGED <<fileContent, fileMtime>>
    /\ EnvHistory(FALSE)
    /\ UNCHANGED <<interval, watcherVars>>

Writer ==
    \/ \E doc \in Docs, t \in Times : WriteFile(doc, t)
    \/ RemoveFile
    \/ \E s \in {"nometa", "noread", "ok"} : SetAccess(s)

Next == Watcher \/ Writer

Spec == Init /\ [][Next]_vars

\* ------------------------------------------------------------------------
\* test_watcher_detects_changes: a valid file, the initial load, then one
\* rewrite to a different valid configuration with a later timestamp.
\* ------------------------------------------------------------------------

InitDetect ==
    /\ fileStatus = "ok"
    /\ fileContent \in ValidDocs
    /\ fileMtime \in Times
    /\ WatcherInit

RewriteOnce(doc, t) ==
    /\ envSteps = 0
    /\ phase = "loop"
    /\ IsValidDoc(doc)
    /\ ParseJson(doc) # ParseJson(fileContent)
    /\ t > fileMtime
    /\ WriteFile(doc, t)

NextDetect == Watcher \/ \E doc \in Docs, t \in Times : RewriteOnce(doc, t)

DetectSpec == InitDetect /\ [][NextDetect]_vars

\* ------------------------------------------------------------------------
\* A well-behaved writer and a fair watcher: the file is always there and
\* readable, every write carries a later timestamp than the one before, and
\* the watch() task is always scheduled again (the ticker keeps firing and
\* every filesystem call returns).
\* ------------------------------------------------------------------------

InitMono ==
    /\ fileStatus = "ok"
    /\ fileContent \in Docs
    /\ fileMtime \in Times
    /\ WatcherInit

MonoWrite(doc, t) ==
    /\ t > fileMtime
    /\ WriteFile(doc, t)

NextMono == Watcher \/ \E doc \in Docs, t \in Times : MonoWrite(doc, t)

FairMonoSpec == InitMono /\ [][NextMono]_vars /\ WF_vars(Watcher)

\* ------------------------------------------------------------------------
\* main: validate the arguments, construct the watcher, then race watch()
\* against Ctrl+C.
\* ------------------------------------------------------------------------

\* The --interval values tried: both ends of the accepted range and their
\* neighbours outside it.
Intervals == {0, 1, MaxIntervalSecs, MaxIntervalSecs + 1}

CliValidateNoZeroCheck(i) ==
    IF i > MaxIntervalSecs THEN "Interval cannot exceed 3600 seconds (1 hour)"
    ELSE ""

\* Cli::validate: "" when Ok(()), else the message of the error.
CliValidate(i) ==
    IF i = 0 THEN "Interval must be greater than 0 seconds"
    ELSE IF i > MaxIntervalSecs THEN "Interval cannot exceed 3600 seconds (1 hour)"
    ELSE ""

InitMain ==
    /\ FileInit
    /\ interval \in Intervals
    /\ check_interval = None
    /\ phase = "init"
    /\ pc = "args"
    /\ last_modified = None
    /\ last_valid_config = None
    /\ config = None
    /\ obs = <<>>
    /\ envSteps = 0
    /\ nUpdated = 0
    /\ tickOdd = FALSE
    /\ quiet = TRUE
    /\ chgPrev = FALSE
    /\ chgCur = FALSE

\* main up to the select!: args.validate()?, then ConfigWatcher::new.
MainStart ==
    /\ pc = "args"
    /\ IF CliValidate(interval) = ""
       THEN /\ check_interval' = Some(interval)
            /\ pc' = "exists"
       ELSE /\ check_interval' = check_interval
            /\ pc' = "rejected"
    /\ UNCHANGED <<interval, fileVars, phase, last_modified, last_valid_config, config, obs,
                   envSteps, nUpdated, tickOdd, quiet, chgPrev, chgCur>>

\* The ctrl_c() branch of select! wins: the watch() future is dropped where
\* it is suspended (read, timestamp query, ticker), or before its first poll.
\* Between has_changed and the existence check of a reload there is no await.
Cancel ==
    /\ \/ pc \in {"read", "stamp", "wait"}
       \/ pc = "exists" /\ phase = "init"
    /\ pc' = "cancelled"
    /\ config' = None
    /\ UNCHANGED <<interval, check_interval, fileVars, phase, last_modified, last_valid_config,
                   obs, envSteps, nUpdated, tickOdd, quiet, chgPrev, chgCur>>

NextMain == MainStart \/ Watcher \/ Writer \/ Cancel

MainSpec == InitMain /\ [][NextMain]_vars

\* ------------------------------------------------------------------------
\* The tests of config.rs: build an AppConfig, call validate() on it.
\* ------------------------------------------------------------------------

TestServers ==
    {None} \cup
    {Some([host |-> h, port |-> p, enable_ssl |-> TRUE]) :
        h \in {<<>>, <<"\t">>, <<"h">>}, p \in {0, 8080}}

TestDatabases ==
    {None} \cup
    {Some([connection_string |-> cs, pool_size |-> ps, timeout_seconds |-> default_timeout]) :
        cs \in {<<>>, <<" ">>, <<"p">>}, ps \in {0, default_pool_size}}

TestConfigs ==
    [app_name    : {<<>>, <<" ">>, TestApp},
     version     : {<<"1">>, <<"1", ".", "0">>},
     environment : {"development", "staging", "production", "invalid"},
     server      : TestServers,
     database    : TestDatabases,
     features    : {{}}]

InitValidate ==
    /\ fileStatus = "missing" /\ fileContent = DocGarbage /\ fileMtime = 0
    /\ interval = DefaultInterval
    /\ check_interval = None
    /\ phase = "init"
    /\ pc = "validate"
    /\ last_modified = None
    /\ last_valid_config = None
    /\ config \in {Some(c) : c \in TestConfigs}
    /\ obs = <<>>
    /\ envSteps = 0
    /\ nUpdated = 0
    /\ tickOdd = FALSE
    /\ quiet = TRUE
    /\ chgPrev = FALSE
    /\ chgCur = FALSE

\* config.validate(), its result kept as the reason ("" for Ok).
ValidateStep ==
    /\ pc = "validate"
    /\ pc' = "validated"
    /\ obs' = <<ErrObs("validate", Validate(config[1]))>>
    /\ UNCHANGED <<interval, check_interval, fileVars, phase, last_modified, last_valid_config,
                   config, envSteps, nUpdated, tickOdd, quiet, chgPrev, chgCur>>

ValidateSpec == InitValidate /\ [][ValidateStep]_vars

TypeOK ==
    /\ fileStatus \in FileStatuses
    /\ fileContent \in Docs
    /\ fileMtime \in Times
    /\ phase \in {"init", "loop"}
    /\ pc \in {"args", "rejected", "exists", "read", "stamp", "wait", "failed", "cancelled",
              "validate", "validated"}
    /\ envSteps \in 0..MaxEnvSteps
    /\ tickOdd \in BOOLEAN
    /\ quiet \in BOOLEAN /\ chgPrev \in BOOLEAN /\ chgCur \in BOOLEAN

\* ------------------------------------------------------------------------
\* Vocabulary of the properties
\* ------------------------------------------------------------------------

FailureKinds == {"initial_failed", "reload_failed", "check_error"}

\* A step of the watcher (the writer's steps count envSteps).
WatcherStep == envSteps' = envSteps /\ pc' # "cancelled"

\* A step of the watcher that ends an attempt in failure: it prints one of
\* the failure observations, or watch() returns the error.
FailedAttemptStep ==
    /\ WatcherStep
    /\ \/ pc' = "failed"
       \/ obs' # <<>> /\ obs'[Len(obs')].kind \in FailureKinds

\* The configuration the file would load to, when it loads.
FileLoadable == fileStatus = "ok" /\ IsValidDoc(fileContent)

FileConfig == ParseJson(fileContent)

\* ------------------------------------------------------------------------
\* Properties
\* ------------------------------------------------------------------------

\* C1 - Monotonic fallback: once last_valid_config holds a value, it is never
\* cleared, and a step that ends an attempt in failure (check error, reload
\* failure of any kind, error returned from watch) leaves it as it was.
MonotonicFallback ==
    [][IsSome(last_valid_config) =>
          /\ IsSome(last_valid_config')
          /\ (FailedAttemptStep => last_valid_config' = last_valid_config)]_vars

\* A reload has just failed while a valid configuration is held.
FallbackAfterFailedReload ==
    /\ IsSome(last_valid_config)
    /\ pc = "wait"
    /\ "reload_failed" \in Kinds(obs)

\* C2 - No error inside one attempt terminates watch(): watch() is never in
\* the state of having returned an error.
WatchNeverReturnsErr == pc # "failed"

\* C3 - Change detection: a tick whose timestamp query succeeds with t goes
\* on to reload exactly when last_modified is None or t > last_modified.
ChangeDetection ==
    [][(pc = "wait" /\ WatcherStep /\ MetadataOk) =>
          ((pc' = "exists") <=>
              (last_modified = None \/ fileMtime > last_modified[1]))]_vars

\* A tick has found the file unchanged although it was rewritten, with a
\* timestamp not later than the stored one, to a different configuration.
RewrittenNotLaterUnchanged ==
    /\ phase = "loop" /\ pc = "wait"
    /\ envSteps > 0 /\ quiet
    /\ obs = <<>>
    /\ IsSome(last_modified) /\ IsSome(last_valid_config)
    /\ FileLoadable
    /\ fileMtime <= last_modified[1]
    /\ FileConfig # last_valid_config

\* C4 - Every value held in last_valid_config is the parse of a document and
\* passes AppConfig::validate.
StoredConfigIsValidated ==
    IsSome(last_valid_config) =>
        /\ \E d \in Docs : ParseJson(d) = last_valid_config
        /\ Validate(last_valid_config[1]) = ""

\* A document that parses but fails validation was just refused while a
\* valid configuration is held.
RefusedInvalidKeepsValid ==
    /\ IsSome(last_valid_config)
    /\ pc = "wait"
    /\ fileContent = DocBadVersion
    /\ obs # <<>> /\ obs[Len(obs)].error = "ValidationFailed"

\* C5 - A reload that was reported ("reloaded", with "updated" or "content
\* unchanged") has its value in last_valid_config, and last_modified set,
\* once the tick is over.
ReportedReloadIsStored ==
    (phase = "loop" /\ "reloaded" \in Kinds(obs) /\ pc # "stamp") =>
        /\ pc = "wait"
        /\ IsSome(last_modified)
        /\ IsSome(last_valid_config)
        /\ \A i \in 1..Len(obs) :
              obs[i].kind = "summary" =>
                  obs[i] = print_config_summary(last_valid_config[1])[1]

\* C6 - First-success promotion: a tick on a file that loads and that the
\* writer leaves alone during the tick ends with a configuration held, the
\* file's own when none was held before; and last_valid_config leaves None
\* only by the store that follows a successful load.
FirstSuccessPromotion ==
    /\ [](  (phase = "loop" /\ pc = "wait" /\ quiet /\ FileLoadable) =>
               /\ IsSome(last_valid_config)
               /\ (Kinds(obs) = {"change_detected", "reloaded", "summary"}
                      => last_valid_config = FileConfig))
    /\ [][(last_valid_config = None /\ last_valid_config' # None) =>
             /\ pc = "stamp" /\ pc' = "wait"
             /\ IsSome(config) /\ last_valid_config' = config
             /\ IsSome(last_modified')
             /\ Kinds(obs) \cap {"loaded", "reloaded"} # {}]_vars

\* After a failed initial load and a correction of the file, a tick has
\* loaded the file's configuration.
PromotedAfterCorrection ==
    /\ phase = "loop" /\ pc = "wait"
    /\ envSteps > 0 /\ quiet
    /\ FileLoadable
    /\ Kinds(obs) = {"change_detected", "reloaded", "summary"}
    /\ last_valid_config = FileConfig

\* C7 as stated - the successful load of a changed tick prints "content
\* unchanged" and no "updated" when the new value equals last_valid_config,
\* and "updated" with the summary of the new value when it differs.
ContentUnchangedDetectionAsStated ==
    [][(WatcherStep /\ phase = "loop" /\ pc = "read" /\ pc' = "stamp") =>
          IF config' = last_valid_config
          THEN obs' = obs \o <<Obs("reloaded"), Obs("content_unchanged")>>
          ELSE obs' = obs \o <<Obs("reloaded"), Obs("updated")>>
                          \o print_config_summary(config'[1])]_vars

\* C7 as amended - as above when last_valid_config holds a value; when it
\* holds none, the load prints "reloaded" and the summary, and no "updated".
ContentUnchangedDetection ==
    [][(WatcherStep /\ phase = "loop" /\ pc = "read" /\ pc' = "stamp") =>
          IF last_valid_config = None
          THEN obs' = obs \o <<Obs("reloaded")>> \o print_config_summary(config'[1])
          ELSE IF config' = last_valid_config
          THEN obs' = obs \o <<Obs("reloaded"), Obs("content_unchanged")>>
          ELSE obs' = obs \o <<Obs("reloaded"), Obs("updated")>>
                          \o print_config_summary(config'[1])]_vars

\* A changed tick has loaded a value equal to the one held.
TouchedFileReported ==
    /\ phase = "loop" /\ pc = "stamp"
    /\ IsSome(last_valid_config)
    /\ config = last_valid_config
    /\ "content_unchanged" \in Kinds(obs)
    /\ "updated" \notin Kinds(obs)

\* C8 - In the run of test_watcher_detects_changes there is exactly one
\* "updated" observation: none before the rewrite, one by the end of the
\* first tick after it, and no further one.
ExactlyOneUpdated ==
    /\ nUpdated <= 1
    /\ (envSteps = 0 => nUpdated = 0)
    /\ (envSteps = 1 /\ quiet /\ pc \in {"stamp", "wait"} => nUpdated = 1)

\* Ticks have gone by after the rewrite was picked up.
UpdatedOnceThenSilent ==
    /\ envSteps = 1 /\ quiet
    /\ pc = "wait" /\ obs = <<>>
    /\ nUpdated = 1
    /\ last_valid_config = FileConfig

\* C9 as stated - in every watcher state, a step of a tick leaves
\* last_valid_config alone and prints no "updated" when the file's timestamp
\* has stayed the same over the previous attempt and this one.
IdempotenceInEveryState ==
    [][(WatcherStep /\ phase = "loop" /\ ~chgPrev' /\ ~chgCur') =>
          /\ last_valid_config' = last_valid_config
          /\ nUpdated' = nUpdated]_vars

\* C9 as amended - the same while last_modified is set and the file's
\* timestamp, unchanged during the tick, is not later than last_modified.
IdempotenceOnceStamped ==
    [][(WatcherStep /\ IsSome(last_modified) /\ fileStatus # "missing"
           /\ fileMtime <= last_modified[1] /\ ~chgCur') =>
          /\ last_valid_config' = last_valid_config
          /\ nUpdated' = nUpdated
          /\ "updated" \notin Kinds(obs')]_vars

\* Two attempts in a row have seen the same timestamp, the stored one, and
\* the second was silent.
RepeatedCheckSilent ==
    /\ phase = "loop" /\ pc = "wait"
    /\ envSteps > 0 /\ quiet
    /\ ~chgPrev /\ ~chgCur
    /\ obs = <<>>
    /\ fileStatus = "ok"
    /\ IsSome(last_modified) /\ fileMtime = last_modified[1]

\* C10 - Currency: if from some point on the file holds one valid document,
\* last_valid_config eventually is, and stays, that document's configuration.
Currency ==
    \A d \in ValidDocs :
        <>[](fileStatus = "ok" /\ fileContent = d)
            => <>[](last_valid_config = ParseJson(d))

\* Uninitialized, AwaitingFirstValid, HasValidConfig
WatcherState ==
    IF phase = "init" THEN "Uninitialized"
    ELSE IF IsSome(last_valid_config) THEN "HasValidConfig"
    ELSE "AwaitingFirstValid"

\* C11 - watch() never returns Ok(()); wherever watch() is suspended, in each
\* of the three watcher states, Ctrl+C can end the run; and once it has, no
\* field of the watcher and no observation changes any more.
NoNormalEndButCancellable ==
    /\ [](pc # "returned")
    /\ []((\/ pc \in {"read", "stamp", "wait"}
           \/ pc = "exists" /\ WatcherState = "Uninitialized") => ENABLED Cancel)
    /\ [][pc = "cancelled" =>
             /\ pc' = "cancelled"
             /\ UNCHANGED <<check_interval, phase, last_modified, last_valid_config,
                            config, obs, nUpdated, tickOdd>>]_vars

\* The run was cancelled with a configuration held, and the file has since
\* been rewritten to another one with a later timestamp.
CancelledThenFileRewritten ==
    /\ pc = "cancelled"
    /\ WatcherState = "HasValidConfig"
    /\ ~quiet
    /\ FileLoadable
    /\ FileConfig # last_valid_config
    /\ fileMtime > last_modified[1]

NonEmpty(s) == Len(s) > 0

NonBlank(s) == \E i \in 1..Len(s) : s[i] \notin {" ", "\t", "\n", "\r"}

HasDot(s) == \E i \in 1..Len(s) : s[i] = "."

\* C12 as stated - validate returns Ok exactly when app_name is non-empty
\* after trimming, version has a '.', environment is one of the three, a
\* present server has a non-empty host and port > 0, and a present database
\* has a non-empty connection_string and pool_size > 0.
ValidateRulesAsStated ==
    pc = "validated" =>
        LET c == config[1]
        IN  (obs[1].error = "") <=>
               /\ NonBlank(c.app_name)
               /\ HasDot(c.version)
               /\ c.environment \in {"development", "staging", "production"}
               /\ (c.server # None =>
                      NonEmpty(c.server[1].host) /\ c.server[1].port > 0)
               /\ (c.database # None =>
                      NonEmpty(c.database[1].connection_string) /\ c.database[1].pool_size > 0)

\* C12 as amended - the same, with host and connection_string non-empty after
\* trimming, as app_name.
ValidateRules ==
    pc = "validated" =>
        LET c == config[1]
        IN  (obs[1].error = "") <=>
               /\ NonBlank(c.app_name)
               /\ HasDot(c.version)
               /\ c.environment \in {"development", "staging", "production"}
               /\ (c.server # None =>
                      NonBlank(c.server[1].host) /\ c.server[1].port > 0)
               /\ (c.database # None =>
                      NonBlank(c.database[1].connection_string) /\ c.database[1].pool_size > 0)

\* validate() has refused a configuration for its whitespace-only host alone.
BlankHostRefused ==
    /\ pc = "validated"
    /\ obs[1].error = "server.host cannot be empty"
    /\ config[1].server # None /\ config[1].server[1].host = <<"\t">>
    /\ config[1].server[1].port > 0
    /\ config[1].database = None

\* C13 - main lets an interval through exactly when 0 < interval <= 3600,
\* constructs the watcher with it only then, and watch() never runs with an
\* interval outside that range; a refused interval ends main before anything
\* of the watcher has run.
IntervalValidatedBeforeLoop ==
    /\ [][(pc = "args" /\ pc' # "args") =>
             IF 0 < interval /\ interval <= 3600
             THEN pc' = "exists" /\ check_interval' = <<interval>>
             ELSE pc' = "rejected" /\ check_interval' = <<>>]_vars
    /\ [](pc \in {"exists", "read", "stamp", "wait"} =>
             /\ check_interval = <<interval>>
             /\ 0 < check_interval[1] /\ check_interval[1] <= 3600)
    /\ [](pc = "rejected" =>
             /\ check_interval = <<>> /\ phase = "init" /\ obs = <<>>
             /\ last_modified = <<>> /\ last_valid_config = <<>>)

\* The loop is running with the largest interval allowed.
LoopRunsWithLargestInterval ==
    /\ pc = "wait" /\ phase = "loop"
    /\ check_interval = <<3600>>
    /\ tickOdd

\* C14 - A reload that fails on a changed tick leaves last_modified and
\* last_valid_config as they were, and the next tick, on a file whose
\* timestamp is still the same, is classified as changed and reloads again.
RetryAfterFailedReload ==
    [][/\ (WatcherStep /\ phase = "loop" /\ pc \in {"exists", "read"} /\ pc' = "wait") =>
             /\ obs'[Len(obs')].kind = "reload_failed"
             /\ last_modified' = last_modified
             /\ last_valid_config' = last_valid_config
       /\ (WatcherStep /\ pc = "wait" /\ obs # <<>> /\ obs[Len(obs)].kind = "reload_failed"
              /\ ~chgCur /\ MetadataOk) =>
             /\ pc' = "exists"
             /\ obs' = <<Obs("change_detected")>>]_vars

\* With a configuration held, two ticks in a row have found the same
\* timestamp, and the second has tried the reload again and failed again.
FailedReloadRetried ==
    /\ phase = "loop" /\ pc = "wait"
    /\ IsSome(last_valid_config)
    /\ obs # <<>> /\ obs[Len(obs)].kind = "reload_failed"
    /\ ~tickOdd
    /\ quiet /\ ~chgPrev /\ ~chgCur

\* C15 - The initial load is one read_config, taken without has_changed; it
\* ends in the loop either with the file's timestamp and the configuration
\* stored, or with "initial load failed" printed and both fields still None.
InitialLoadEndsInLoop ==
    [][(WatcherStep /\ phase = "init") =>
          \/ /\ pc = "exists" /\ pc' = "read"
             /\ phase' = "init" /\ obs' = obs
             /\ last_modified' = <<>> /\ last_valid_config' = <<>>
          \/ /\ pc = "read" /\ pc' = "stamp"
             /\ phase' = "init" /\ "loaded" \in Kinds(obs')
             /\ last_modified' = <<>> /\ last_valid_config' = <<>>
          \/ /\ pc = "stamp" /\ pc' = "wait"
             /\ phase' = "loop"
             /\ last_modified' = <<fileMtime>> /\ last_valid_config' = config
             /\ IsSome(config)
          \/ /\ pc \in {"exists", "read"} /\ pc' = "wait"
             /\ phase' = "loop"
             /\ obs'[Len(obs')].kind = "initial_failed"
             /\ last_modified' = <<>> /\ last_valid_config' = <<>>]_vars

\* C16 - A tick whose timestamp query fails prints "check error", reads
\* nothing, leaves last_modified and last_valid_config alone and waits for
\* the next tick.
CheckErrorSkipsTick ==
    [][(WatcherStep /\ pc = "wait" /\ fileStatus \in {"missing", "nometa"}) =>
          /\ obs' = <<ErrObs("check_error", "MetadataError")>>
          /\ pc' = "wait"
          /\ config' = <<>>
          /\ last_modified' = last_modified
          /\ last_valid_config' = last_valid_config]_vars

\* The file has disappeared from under a watcher that holds a configuration,
\* and a tick has reported it.
CheckErrorKeepsConfig ==
    /\ phase = "loop" /\ pc = "wait"
    /\ fileStatus = "missing"
    /\ quiet
    /\ obs = <<ErrObs("check_error", "MetadataError")>>
    /\ IsSome(last_modified) /\ IsSome(last_valid_config)

\* C17 - last_modified is set for the first time or to a strictly later
\* timestamp, whatever the writer does.
LastModifiedOnlyForward ==
    [][last_modified' # last_modified =>
          \/ last_modified = <<>>
          \/ last_modified'[1] > last_modified[1]]_vars

LoadPipelineStages ==
    [][/\ (WatcherStep /\ pc = "exists") =>
             IF fileStatus = "missing"
             THEN /\ pc' = "wait"
                  /\ obs'[Len(obs')].error = "FileNotFound"
             ELSE /\ pc' = "read"
                  /\ obs' = obs
       /\ (WatcherStep /\ pc = "read") =>
             IF fileStatus # "ok"
             THEN /\ pc' = "wait"
                  /\ obs'[Len(obs')].error = "ReadError"
             ELSE IF ~IsSome(ParseJson(fileContent))
             THEN /\ pc' = "wait"
                  /\ obs'[Len(obs')].error = "InvalidJson"
             ELSE IF Validate(ParseJson(fileContent)[1]) # ""
             THEN /\ pc' = "wait"
                  /\ obs'[Len(obs')].error = "ValidationFailed"
             ELSE /\ pc' = "stamp"
                  /\ config' = ParseJson(fileContent)]_vars

\* C20 - A tick begins only when no attempt is in flight; last_modified and
\* last_valid_config are assigned by the watcher's own store and by nothing
\* else; within a tick observations are only appended, and the observations
\* of the next tick begin when the tick does.
OneCheckInFlight ==
    [][/\ tickOdd' # tickOdd =>
             /\ WatcherStep
             /\ pc = "wait" /\ config = <<>>
             /\ Len(obs') <= 1
       /\ (last_modified' # last_modified \/ last_valid_config' # last_valid_config) =>
             /\ WatcherStep
             /\ pc = "stamp" /\ pc' = "wait"
       /\ tickOdd' = tickOdd =>
             /\ Len(obs') >= Len(obs)
             /\ SubSeq(obs', 1, Len(obs)) = obs]_vars

\* A reload of a later tick has printed its three observations and is about
\* to store, while the writer has already written again.
ReloadInFlight ==
    /\ phase = "loop" /\ pc = "stamp"
    /\ IsSome(config)
    /\ Len(obs) >= 3
    /\ ~quiet
    /\ nUpdated = 2

\* C21 - The timestamp stored with a configuration is the timestamp of the
\* file version that configuration was parsed from: when the watcher stores,
\* the file whose timestamp it takes still holds the content it has read.
StoredPairIsOneVersion ==
    [][(WatcherStep /\ pc = "stamp" /\ pc' = "wait") =>
          /\ last_modified' = <<fileMtime>>
          /\ ParseJson(fileContent) = last_valid_config']_vars

\* C22 - last_modified and last_valid_config are both None after new(), are
\* assigned in one step by the store that follows a successful read and by
\* nothing else, so in every state one is Some exactly when the other is.
FieldsSetTogether ==
    /\ last_modified = <<>> /\ last_valid_config = <<>>
    /\ [](IsSome(last_modified) <=> IsSome(last_valid_config))
    /\ [][(last_modified' # last_modified \/ last_valid_config' # last_valid_config) =>
             /\ pc = "stamp" /\ pc' = "wait"
             /\ IsSome(config)
             /\ last_modified' = <<fileMtime>>
             /\ last_valid_config' = config]_vars

\* watch() has returned the error of the timestamp query that follows a
\* reload which had already printed "updated"; both fields are as the
\* earlier store left them.
StoreFailedBothKept ==
    /\ phase = "loop" /\ pc = "failed"
    /\ "updated" \in Kinds(obs)
    /\ IsSome(last_modified) /\ IsSome(last_valid_config)
    /\ IsSome(check_interval)

====
